---- MODULE Spec2Model ----
(***************************************************************************)
(* A model of the window-framework crate (Canvas, App, InputState) and of  *)
(* the bouncing-box binary of the visualizations repository.               *)
(*                                                                         *)
(*   Spec      the Canvas over one frame buffer: set_pixel, get_pixel,     *)
(*             clear, fill_rect, draw_grid                                 *)
(*   SpecApp   the winit driver App<W>: resumed and window_event           *)
(*   SpecBox   BouncingBox::new followed by BouncingBox::update            *)
(***************************************************************************)
EXTENDS Integers, Naturals, Sequences, FiniteSets, TLC

VARIABLES
    cv,               \* the Canvas fields other than the borrowed frame
    frame,            \* the RGBA8 frame buffer, a sequence of bytes
    call,             \* the Canvas call in progress (operation, arguments, result)
    prev,             \* the frame buffer as it was when that call started
    touched,          \* byte indices (0-based) that call read or wrote
    panicked,         \* the thread panicked (overflow check or slice index)
    bb,               \* the BouncingBox world
    app,              \* the App fields: window, pixels, world, input, configuration
    exiting,          \* event_loop.exit() was called
    presented,        \* the buffer of the last successful pixels.render()
    log,              \* the World and Pixels calls of the last redraw, in order
    new_calls,        \* number of W::new() calls so far
    last              \* the last raw event per key, for the cursor, per button

canvasVars == <<cv, call, prev, touched, panicked>>
appVars == <<app, exiting, presented, log, new_calls, last>>
vars == <<cv, frame, call, prev, touched, panicked, bb, app, exiting, presented, log, new_calls, last>>

----------------------------------------------------------------------------
(* Bounds of the model *)

MaxPhys == 3
(* logical grids up to half the largest physical size, rounded up *)
MaxLog == (MaxPhys + 1) \div 2

(* i32 *)
I32Max == 2147483647
I32Min == (-I32Max) - 1

TopLeft == "TopLeft"
Center == "Center"
CoordinateSystem == {TopLeft, Center}

BLACK == <<0, 0, 0, 0>>
RED == <<255, 0, 0, 255>>
PURPLE == <<94, 72, 232, 255>>
WHITE == <<255, 255, 255, 255>>

----------------------------------------------------------------------------
(* Integer arithmetic of the build.  An i32 operation that overflows wraps *)
(* (two's complement) and reports it; the caller panics when the build has *)
(* overflow checks.  Every intermediate value stays inside the i32 range.  *)

AddI32(a, b) ==
    IF b > 0 /\ a > I32Max - b
    THEN [overflow |-> TRUE, val |-> (((a - I32Max) - 1) + b) + I32Min]
    ELSE IF b < 0 /\ a < I32Min - b
    THEN [overflow |-> TRUE, val |-> (((a - I32Min) + b) + I32Max) + 1]
    ELSE [overflow |-> FALSE, val |-> a + b]

SubI32(a, b) ==
    IF b < 0 /\ a > I32Max + b
    THEN [overflow |-> TRUE, val |-> (((a - I32Max) - 1) - b) + I32Min]
    ELSE IF b > 0 /\ a < I32Min + b
    THEN [overflow |-> TRUE, val |-> (((a - I32Min) - b) + I32Max) + 1]
    ELSE [overflow |-> FALSE, val |-> a - b]

(* `n as i32` for a u32 n held as a natural number *)
AsI32(n) == IF n <= I32Max THEN n ELSE I32Min + ((n - I32Max) - 1)

(* A u32 argument that may exceed i32::MAX is held as [hi, lo], the value  *)
(* hi * 2^31 + lo with hi in {0, 1} and lo in 0..i32::MAX.                 *)
U32(hi, lo) == [hi |-> hi, lo |-> lo]

(* `u as i32` for such a u32: the same 32 bits read as two's complement *)
U32AsI32(u) == IF u.hi = 1 THEN I32Min + u.lo ELSE u.lo

----------------------------------------------------------------------------
(* Canvas *)

CanvasNew(physical_width, physical_height, logical_width, logical_height, coordinate_system, show_grid, grid_color) ==
    [physical_width |-> physical_width,
     physical_height |-> physical_height,
     logical_width |-> logical_width,
     logical_height |-> logical_height,
     pixel_scale_x |-> physical_width \div logical_width,
     pixel_scale_y |-> physical_height \div logical_height,
     coordinate_system |-> coordinate_system,
     show_grid |-> show_grid,
     grid_color |-> grid_color]

(* The buffer the driver hands over: physical_width*physical_height*4 bytes *)
BlankFrame(physical_width, physical_height) ==
    [i \in 1..(physical_width * physical_height * 4) |-> 0]

(* The running state of one Canvas call: the frame, the byte indices read   *)
(* or written, whether the thread panicked, whether an i32 overflowed       *)
St(f, t, p, o) == [frame |-> f, touched |-> t, panicked |-> p, overflowed |-> o]

Enter(f) == St(f, {}, FALSE, FALSE)

None == [kind |-> "None"]
Some(v) == [kind |-> "Some", val |-> v]
Panic == [kind |-> "Panic"]

(* to_logical_coords with the Y axis of Center not flipped *)
to_logical_coords_noflip(c, x, y, oc) ==
    LET center_x == AsI32(c.logical_width \div 2)
        center_y == AsI32(c.logical_height \div 2)
        sx == IF c.coordinate_system = TopLeft
              THEN [overflow |-> FALSE, val |-> x] ELSE AddI32(x, center_x)
        sy == IF c.coordinate_system = TopLeft
              THEN [overflow |-> FALSE, val |-> y] ELSE AddI32(center_y, y)
        logical_x == sx.val
        logical_y == sy.val
        o == sx.overflow \/ sy.overflow
    IN  IF oc /\ o THEN [kind |-> "Panic", overflowed |-> o]
        ELSE IF /\ logical_x >= 0 /\ logical_x < AsI32(c.logical_width)
                /\ logical_y >= 0 /\ logical_y < AsI32(c.logical_height)
             THEN [kind |-> "Some", val |-> <<logical_x, logical_y>>, overflowed |-> o]
             ELSE [kind |-> "None", overflowed |-> o]

(* to_logical_coords: Some(<<x, y>>), None, or a panic of the overflow     *)
(* check.  oc: the build checks integer overflow (the debug profile) and   *)
(* panics on it; otherwise (the release profile) the value wraps.          *)
to_logical_coords(c, x, y, oc) ==
    LET center_x == AsI32(c.logical_width \div 2)
        center_y == AsI32(c.logical_height \div 2)
        sx == IF c.coordinate_system = TopLeft
              THEN [overflow |-> FALSE, val |-> x] ELSE AddI32(x, center_x)
        sy == IF c.coordinate_system = TopLeft
              THEN [overflow |-> FALSE, val |-> y] ELSE SubI32(center_y, y)
        logical_x == sx.val
        logical_y == sy.val
        o == sx.overflow \/ sy.overflow
    IN  IF oc /\ o THEN [kind |-> "Panic", overflowed |-> o]
        ELSE IF /\ logical_x >= 0 /\ logical_x < AsI32(c.logical_width)
                /\ logical_y >= 0 /\ logical_y < AsI32(c.logical_height)
             THEN [kind |-> "Some", val |-> <<logical_x, logical_y>>, overflowed |-> o]
             ELSE [kind |-> "None", overflowed |-> o]

(* idx with the rows taken physical_height pixels long *)
PixelIndex_height(c, phys_x, phys_y) == (phys_y * c.physical_height + phys_x) * 4

(* idx of set_physical_pixel / get_physical_pixel *)
PixelIndex(c, phys_x, phys_y) == (phys_y * c.physical_width + phys_x) * 4

(* self.frame[idx + k] = color.k for k = 0..3; a slice index out of range panics *)
WriteBytes(st, idx, color) ==
    LET n == Len(st.frame) IN
    IF idx >= 0 /\ idx + 3 < n
    THEN St([st.frame EXCEPT ![idx + 1] = color[1], ![idx + 2] = color[2],
                             ![idx + 3] = color[3], ![idx + 4] = color[4]],
            st.touched \cup (idx..(idx + 3)), FALSE, st.overflowed)
    ELSE LET bad == CHOOSE i \in idx..(idx + 3) :
                        /\ i < 0 \/ i >= n
                        /\ \A j \in idx..(i - 1) : j >= 0 /\ j < n
         IN  St([i \in 1..n |-> IF (i - 1) \in idx..(bad - 1)
                                THEN color[i - idx] ELSE st.frame[i]],
                st.touched \cup (idx..bad), TRUE, st.overflowed)

set_physical_pixel(c, st, phys_x, phys_y, color) ==
    IF phys_x < c.physical_width /\ phys_y < c.physical_height
    THEN WriteBytes(st, PixelIndex(c, phys_x, phys_y), color)
    ELSE st

(* get_physical_pixel: the state after the reads, and the Option returned *)
get_physical_pixel(c, st, phys_x, phys_y) ==
    IF phys_x < c.physical_width /\ phys_y < c.physical_height
    THEN LET idx == PixelIndex(c, phys_x, phys_y)
             rd == {idx + k : k \in 0..3}
         IN  IF \E i \in rd : i < 0 \/ i >= Len(st.frame)
             THEN [st |-> St(st.frame, st.touched \cup rd, TRUE, st.overflowed),
                   ret |-> Panic]
             ELSE [st |-> St(st.frame, st.touched \cup rd, FALSE, st.overflowed),
                   ret |-> Some(<<st.frame[idx + 1], st.frame[idx + 2],
                                  st.frame[idx + 3], st.frame[idx + 4]>>)]
    ELSE [st |-> st, ret |-> None]

(* The block loops of set_pixel: for dy in 0..scale_y, for dx in 0..scale_x *)
RECURSIVE FillBlock(_, _, _, _, _, _, _)
FillBlock(c, st, phys_x_start, phys_y_start, dx, dy, color) ==
    IF st.panicked \/ dy >= c.pixel_scale_y THEN st
    ELSE IF dx >= c.pixel_scale_x
    THEN FillBlock(c, st, phys_x_start, phys_y_start, 0, dy + 1, color)
    ELSE FillBlock(c,
                   set_physical_pixel(c, st, phys_x_start + dx, phys_y_start + dy, color),
                   phys_x_start, phys_y_start, dx + 1, dy, color)

(* set_pixel: the state after the call and the bool returned *)
set_pixel(c, st, x, y, color, oc) ==
    LET l == to_logical_coords(c, x, y, oc)
        s0 == St(st.frame, st.touched, FALSE, st.overflowed \/ l.overflowed)
    IN
    IF l.kind = "Panic" THEN [st |-> [s0 EXCEPT !.panicked = TRUE], ret |-> Panic]
    ELSE IF l.kind = "Some"
    THEN LET phys_x_start == l.val[1] * c.pixel_scale_x
             phys_y_start == l.val[2] * c.pixel_scale_y
             done == FillBlock(c, s0, phys_x_start, phys_y_start, 0, 0, color)
         IN  [st |-> done, ret |-> IF done.panicked THEN Panic ELSE Some(TRUE)]
    ELSE [st |-> s0, ret |-> Some(FALSE)]

get_pixel(c, st, x, y, oc) ==
    LET l == to_logical_coords(c, x, y, oc)
        s0 == St(st.frame, st.touched, FALSE, st.overflowed \/ l.overflowed)
    IN
    IF l.kind = "Panic" THEN [st |-> [s0 EXCEPT !.panicked = TRUE], ret |-> Panic]
    ELSE IF l.kind = "Some"
    THEN get_physical_pixel(c, s0, l.val[1] * c.pixel_scale_x, l.val[2] * c.pixel_scale_y)
    ELSE [st |-> s0, ret |-> None]

(* clear: every whole 4-byte chunk of the frame is overwritten *)
clear(c, st, color) ==
    LET n == 4 * (Len(st.frame) \div 4) IN
    St([i \in 1..Len(st.frame) |->
            IF i <= n THEN color[((i - 1) % 4) + 1] ELSE st.frame[i]],
       st.touched \cup (0..(n - 1)), FALSE, st.overflowed)

(* fill_rect: for dy in 0..height as i32, for dx in 0..width as i32,       *)
(* set_pixel(x + dx, y + dy, color); the sums are i32 additions            *)
RECURSIVE FillRectLoop(_, _, _, _, _, _, _, _, _, _)
FillRectLoop(c, st, x, y, w, h, dx, dy, color, oc) ==
    IF st.panicked \/ dy >= h THEN st
    ELSE IF dx >= w THEN FillRectLoop(c, st, x, y, w, h, 0, dy + 1, color, oc)
    ELSE LET ax == AddI32(x, dx)
             ay == AddI32(y, dy)
             s0 == [st EXCEPT !.overflowed = @ \/ ax.overflow \/ ay.overflow]
         IN  IF oc /\ (ax.overflow \/ ay.overflow)
             THEN [s0 EXCEPT !.panicked = TRUE]
             ELSE FillRectLoop(c, set_pixel(c, s0, ax.val, ay.val, color, oc).st,
                               x, y, w, h, dx + 1, dy, color, oc)

fill_rect(c, st, x, y, width, height, color, oc) ==
    FillRectLoop(c, st, x, y, U32AsI32(width), U32AsI32(height), 0, 0, color, oc)

(* draw_grid returning early only when neither scale factor exceeds 1 *)
GridActive_either(c) == ~(~c.show_grid \/ (c.pixel_scale_x <= 1 /\ c.pixel_scale_y <= 1))

(* The early return of draw_grid does not happen *)
GridActive(c) == ~(~c.show_grid \/ c.pixel_scale_x <= 1 \/ c.pixel_scale_y <= 1)

RECURSIVE VLine(_, _, _, _)
VLine(c, st, phys_x, phys_y) ==
    IF st.panicked \/ phys_y >= c.physical_height THEN st
    ELSE VLine(c, set_physical_pixel(c, st, phys_x, phys_y, c.grid_color),
               phys_x, phys_y + 1)

RECURSIVE HLine(_, _, _, _)
HLine(c, st, phys_x, phys_y) ==
    IF st.panicked \/ phys_x >= c.physical_width THEN st
    ELSE HLine(c, set_physical_pixel(c, st, phys_x, phys_y, c.grid_color),
               phys_x + 1, phys_y)

RECURSIVE VLines(_, _, _)
VLines(c, st, logical_x) ==
    IF st.panicked \/ logical_x > c.logical_width THEN st
    ELSE LET phys_x == logical_x * c.pixel_scale_x IN
         VLines(c, IF phys_x < c.physical_width THEN VLine(c, st, phys_x, 0) ELSE st,
                logical_x + 1)

RECURSIVE HLines(_, _, _)
HLines(c, st, logical_y) ==
    IF st.panicked \/ logical_y > c.logical_height THEN st
    ELSE LET phys_y == logical_y * c.pixel_scale_y IN
         HLines(c, IF phys_y < c.physical_height THEN HLine(c, st, 0, phys_y) ELSE st,
                logical_y + 1)

draw_grid(c, st) ==
    IF ~GridActive(c) THEN st
    ELSE HLines(c, VLines(c, st, 0), 0)

----------------------------------------------------------------------------
(* The Canvas under calls: Spec *)

NoBox == [box_x |-> 0, box_y |-> 0, velocity_x |-> 0, velocity_y |-> 0]
NoApp == [window |-> "None"]
NoLast == [key |-> <<>>, cursor |-> [kind |-> "none"], button |-> <<>>]
NoCanvas == [coordinate_system |-> TopLeft]

(* The driver is not running *)
AppIdle ==
    /\ app = NoApp
    /\ exiting = FALSE
    /\ presented = <<>>
    /\ log = <<>>
    /\ new_calls = 0
    /\ last = NoLast

Coords == ((-1)..MaxLog) \cup {I32Min, I32Max}
RectCoords == {-1, 0, I32Max}
RectDims == {U32(0, 0), U32(0, MaxLog), U32(1, 0)}
Colors == {RED}
ClearColors == {BLACK, PURPLE}

Call(op, x, y, width, height, color, ret) ==
    [op |-> op, x |-> x, y |-> y, width |-> width, height |-> height,
     color |-> color, ret |-> ret]

NoCall == Call("none", 0, 0, U32(0, 0), U32(0, 0), BLACK, None)

Init ==
    /\ \E pw \in 1..MaxPhys, ph \in 1..MaxPhys, lw \in 1..MaxLog, lh \in 1..MaxLog,
          cs \in CoordinateSystem, sg \in BOOLEAN :
          /\ cv = CanvasNew(pw, ph, lw, lh, cs, sg, WHITE)
          /\ frame = BlankFrame(pw, ph)
    /\ call = NoCall
    /\ prev = <<>>
    /\ touched = {}
    /\ panicked = FALSE
    /\ bb = NoBox
    /\ AppIdle

(* The builds whose outcomes differ: both when an i32 overflowed *)
Builds(overflowed) == IF overflowed THEN BOOLEAN ELSE {FALSE}

(* One Canvas call ends in state st *)
Finish(c, st) ==
    /\ call' = c
    /\ prev' = frame
    /\ frame' = st.frame
    /\ touched' = st.touched
    /\ panicked' = st.panicked
    /\ UNCHANGED <<cv, bb, appVars>>

CanCall == ~panicked /\ call.op = "none"

SetPixel(x, y, color) ==
    /\ CanCall
    /\ LET wr == set_pixel(cv, Enter(frame), x, y, color, FALSE) IN
       \E oc \in Builds(wr.st.overflowed) :
          LET r == IF oc THEN set_pixel(cv, Enter(frame), x, y, color, TRUE) ELSE wr
          IN  Finish(Call("set_pixel", x, y, U32(0, 0), U32(0, 0), color, r.ret), r.st)

GetPixel(x, y) ==
    /\ CanCall
    /\ LET wr == get_pixel(cv, Enter(frame), x, y, FALSE) IN
       \E oc \in Builds(wr.st.overflowed) :
          LET r == IF oc THEN get_pixel(cv, Enter(frame), x, y, TRUE) ELSE wr
          IN  Finish(Call("get_pixel", x, y, U32(0, 0), U32(0, 0), BLACK, r.ret), r.st)

Clear(color) ==
    /\ CanCall
    /\ Finish(Call("clear", 0, 0, U32(0, 0), U32(0, 0), color, None),
              clear(cv, Enter(frame), color))

FillRect(x, y, width, height, color) ==
    /\ CanCall
    /\ LET wr == fill_rect(cv, Enter(frame), x, y, width, height, color, FALSE) IN
       \E oc \in Builds(wr.overflowed) :
          LET st == IF oc THEN fill_rect(cv, Enter(frame), x, y, width, height, color, TRUE)
                    ELSE wr
          IN  Finish(Call("fill_rect", x, y, width, height, color,
                          IF st.panicked THEN Panic ELSE None), st)

DrawGrid ==
    /\ CanCall
    /\ LET st == draw_grid(cv, Enter(frame))
       IN  Finish(Call("draw_grid", 0, 0, U32(0, 0), U32(0, 0), BLACK,
                       IF st.panicked THEN Panic ELSE None), st)

(* The call returns to its caller: its record is dropped *)
Return ==
    /\ ~panicked
    /\ call.op # "none"
    /\ call' = NoCall
    /\ prev' = <<>>
    /\ touched' = {}
    /\ UNCHANGED <<cv, frame, panicked, bb, appVars>>

Next ==
    \/ \E x \in Coords, y \in Coords, color \in Colors : SetPixel(x, y, color)
    \/ \E x \in Coords, y \in Coords : GetPixel(x, y)
    \/ \E color \in ClearColors : Clear(color)
    \/ \E x \in RectCoords, y \in RectCoords, width \in RectDims, height \in RectDims,
          color \in Colors : FillRect(x, y, width, height, color)
    \/ DrawGrid
    \/ Return

Spec == Init /\ [][Next]_vars

----------------------------------------------------------------------------
(* The bouncing-box binary: SpecBox *)

RESOLUTION_WIDTH == 320
RESOLUTION_HEIGHT == 240
WIDTH == RESOLUTION_WIDTH \div 8
HEIGHT == RESOLUTION_HEIGHT \div 8
BOX_SIZE == 8

(* i16 arithmetic wraps to -32768..32767 *)
WrapI16(v) == ((v + 32768) % 65536) - 32768

BouncingBoxNew == [box_x |-> 24, box_y |-> 16, velocity_x |-> 1, velocity_y |-> 1]

update(b) ==
    LET vx == IF b.box_x <= 0 \/ WrapI16(b.box_x + BOX_SIZE) > WIDTH
              THEN WrapI16(b.velocity_x * (-1)) ELSE b.velocity_x
        vy == IF b.box_y <= 0 \/ WrapI16(b.box_y + BOX_SIZE) > HEIGHT
              THEN WrapI16(b.velocity_y * (-1)) ELSE b.velocity_y
    IN  [box_x |-> WrapI16(b.box_x + vx), box_y |-> WrapI16(b.box_y + vy),
         velocity_x |-> vx, velocity_y |-> vy]

InitBox ==
    /\ bb = BouncingBoxNew
    /\ cv = NoCanvas
    /\ frame = <<>>
    /\ call = NoCall
    /\ prev = <<>>
    /\ touched = {}
    /\ panicked = FALSE
    /\ AppIdle

Update ==
    /\ bb' = update(bb)
    /\ UNCHANGED <<frame, canvasVars, appVars>>

NextBox == Update

SpecBox == InitBox /\ [][NextBox]_vars

----------------------------------------------------------------------------
(* The driver: SpecApp.  winit calls resumed once the loop runs and then    *)
(* window_event for each event of the window; it delivers no event once     *)
(* event_loop.exit() was called.                                            *)

KeyCodes == {"Escape", "KeyA"}
PhysicalKeys == {[code |-> k] : k \in KeyCodes} \cup {[unidentified |-> TRUE]}
MouseButtons == {"Left", "Middle", "Right", "Back"}
Positions == {<<10, 20>>, <<30, 5>>}

(* WorldConfig::new: the pixel grid defaults to the resolution *)
WorldConfigNew(width, height, coordinate_system, pixel_grid_width, pixel_grid_height, show_grid, grid_color) ==
    [width |-> width,
     height |-> height,
     coordinate_system |-> coordinate_system,
     pixel_grid_width |-> IF pixel_grid_width = None THEN width ELSE pixel_grid_width.val,
     pixel_grid_height |-> IF pixel_grid_height = None THEN height ELSE pixel_grid_height.val,
     show_grid |-> show_grid,
     grid_color |-> grid_color]

(* The configurations W::config() returns in the model *)
Configs ==
    {WorldConfigNew(MaxPhys, MaxPhys, cs, gw, gh, sg, WHITE) :
        cs \in CoordinateSystem, gw \in {None, Some(1)}, gh \in {None, Some(1)},
        sg \in BOOLEAN}

InputStateNew ==
    [keys_pressed |-> {}, mouse_position |-> None,
     mouse_buttons |-> <<FALSE, FALSE, FALSE>>]

is_key_pressed(input, key) == key \in input.keys_pressed
is_left_mouse_pressed(input) == input.mouse_buttons[1]
is_middle_mouse_pressed(input) == input.mouse_buttons[2]
is_right_mouse_pressed(input) == input.mouse_buttons[3]

(* run and App::new: the configuration is read and the App built *)
AppNew(config) ==
    [window |-> "None", pixels |-> "None", world |-> "None", input |-> InputStateNew,
     width |-> config.width, height |-> config.height,
     pixel_grid_width |-> config.pixel_grid_width,
     pixel_grid_height |-> config.pixel_grid_height,
     coordinate_system |-> config.coordinate_system,
     show_grid |-> config.show_grid, grid_color |-> config.grid_color]

InitApp ==
    /\ app \in {AppNew(config) : config \in Configs}
    /\ exiting = FALSE
    /\ presented = <<>>
    /\ log = <<>>
    /\ new_calls = 0
    /\ last = [key |-> [k \in KeyCodes |-> "none"], cursor |-> [kind |-> "none"],
               button |-> [b \in {"Left", "Middle", "Right"} |-> "none"]]
    /\ frame = <<>>
    /\ cv = NoCanvas
    /\ call = NoCall
    /\ prev = <<>>
    /\ touched = {}
    /\ panicked = FALSE
    /\ bb = NoBox

(* resumed: the window, the Pixels surface (which can fail) and the world *)
Resumed(pixels_ok) ==
    /\ app.window = "None"
    /\ ~exiting
    /\ app' = [app EXCEPT !.window = "Some",
                          !.pixels = IF pixels_ok THEN "Some" ELSE "None",
                          !.world = "Some"]
    /\ frame' = IF pixels_ok THEN BlankFrame(app.width, app.height) ELSE frame
    /\ exiting' = ~pixels_ok
    /\ new_calls' = new_calls + 1
    /\ UNCHANGED <<canvasVars, bb, presented, log, last>>

(* A window event can be delivered *)
CanDeliver == app.window = "Some" /\ ~exiting /\ ~panicked

(* World::draw of an implementer: it clears the canvas and fills one        *)
(* rectangle at (x, y), as BouncingBox::draw does                           *)
WorldDraw(c, st, x, y) ==
    fill_rect(c, clear(c, st, BLACK), x, y, U32(0, 1), U32(0, 1), PURPLE, FALSE)

(* A redraw that updates the world before it hands it the input *)
RedrawCalls_update_first == <<"update", "handle_input", "draw", "render">>

(* The calls of one redraw, in the order window_event makes them *)
RedrawCalls == <<"handle_input", "update", "draw", "render">>

(* WindowEvent::RedrawRequested.  The Canvas is built over the frame of the  *)
(* Pixels surface with the size, the pixel grid and the grid settings that  *)
(* run reads from W::config() and hands to App::new.  No call of draw_grid  *)
(* is made between world.draw and pixels.render.                            *)
RedrawRequested(x, y, render_ok) ==
    /\ CanDeliver
    /\ IF app.world = "Some"
       THEN LET canvas == CanvasNew(app.width, app.height, app.pixel_grid_width,
                                    app.pixel_grid_height, app.coordinate_system,
                                    app.show_grid, app.grid_color)
                drawn == WorldDraw(canvas, Enter(frame), x, y)
            IN  /\ cv' = canvas
                /\ frame' = drawn.frame
                /\ log' = RedrawCalls
                /\ presented' = IF render_ok THEN drawn.frame ELSE presented
                /\ exiting' = ~render_ok
       ELSE UNCHANGED <<cv, frame, log, presented, exiting>>
    /\ UNCHANGED <<call, prev, touched, panicked, bb, app, new_calls, last>>

(* WindowEvent::CloseRequested *)
CloseRequested ==
    /\ CanDeliver
    /\ exiting' = TRUE
    /\ UNCHANGED <<frame, canvasVars, bb, app, presented, log, new_calls, last>>

(* WindowEvent::Resized: resize_surface can fail *)
Resized(resize_ok) ==
    /\ CanDeliver
    /\ exiting' = ~resize_ok
    /\ UNCHANGED <<frame, canvasVars, bb, app, presented, log, new_calls, last>>

(* KeyboardInput that does not remove a released key *)
KeyboardInput_no_release(physical_key, pressed) ==
    /\ CanDeliver
    /\ IF "code" \in DOMAIN physical_key
       THEN LET key_code == physical_key.code IN
            /\ exiting' = (key_code = "Escape")
            /\ app' = [app EXCEPT !.input.keys_pressed =
                           IF pressed THEN @ \cup {key_code} ELSE @]
            /\ last' = [last EXCEPT !.key[key_code] = IF pressed THEN "down" ELSE "up"]
       ELSE UNCHANGED <<exiting, app, last>>
    /\ UNCHANGED <<frame, canvasVars, bb, presented, log, new_calls>>

(* WindowEvent::KeyboardInput *)
KeyboardInput(physical_key, pressed) ==
    /\ CanDeliver
    /\ IF "code" \in DOMAIN physical_key
       THEN LET key_code == physical_key.code IN
            /\ exiting' = (key_code = "Escape")
            /\ app' = [app EXCEPT !.input.keys_pressed =
                           IF pressed THEN @ \cup {key_code} ELSE @ \ {key_code}]
            /\ last' = [last EXCEPT !.key[key_code] = IF pressed THEN "down" ELSE "up"]
       ELSE UNCHANGED <<exiting, app, last>>
    /\ UNCHANGED <<frame, canvasVars, bb, presented, log, new_calls>>

(* WindowEvent::CursorMoved *)
CursorMoved(position) ==
    /\ CanDeliver
    /\ app' = [app EXCEPT !.input.mouse_position = Some(position)]
    /\ last' = [last EXCEPT !.cursor = [kind |-> "moved", val |-> position]]
    /\ UNCHANGED <<frame, canvasVars, bb, exiting, presented, log, new_calls>>

(* WindowEvent::CursorLeft *)
CursorLeft ==
    /\ CanDeliver
    /\ app' = [app EXCEPT !.input.mouse_position = None]
    /\ last' = [last EXCEPT !.cursor = [kind |-> "left"]]
    /\ UNCHANGED <<frame, canvasVars, bb, exiting, presented, log, new_calls>>

(* WindowEvent::MouseInput *)
MouseInput(button, pressed) ==
    /\ CanDeliver
    /\ app' = [app EXCEPT !.input.mouse_buttons =
                   IF button = "Left" THEN [@ EXCEPT ![1] = pressed]
                   ELSE IF button = "Middle" THEN [@ EXCEPT ![2] = pressed]
                   ELSE IF button = "Right" THEN [@ EXCEPT ![3] = pressed]
                   ELSE @]
    /\ last' = IF button \in DOMAIN last.button
               THEN [last EXCEPT !.button[button] = IF pressed THEN "down" ELSE "up"]
               ELSE last
    /\ UNCHANGED <<frame, canvasVars, bb, exiting, presented, log, new_calls>>

NextApp ==
    \/ \E pixels_ok \in BOOLEAN : Resumed(pixels_ok)
    \/ \E x \in {-1, 0}, y \in {0}, render_ok \in BOOLEAN : RedrawRequested(x, y, render_ok)
    \/ CloseRequested
    \/ \E resize_ok \in BOOLEAN : Resized(resize_ok)
    \/ \E physical_key \in PhysicalKeys, pressed \in BOOLEAN :
          KeyboardInput(physical_key, pressed)
    \/ \E position \in Positions : CursorMoved(position)
    \/ CursorLeft
    \/ \E button \in MouseButtons, pressed \in BOOLEAN : MouseInput(button, pressed)

SpecApp == InitApp /\ [][NextApp]_vars

----------------------------------------------------------------------------
(* Properties of the Canvas (Spec) *)

(* The physical pixel that holds byte i (1-based) of the frame *)
PxOf(i) == ((i - 1) \div 4) % cv.physical_width
PyOf(i) == ((i - 1) \div 4) \div cv.physical_width

(* The buffer coordinate of a logical point, as the specification gives it *)
BufX(c, x) == IF c.coordinate_system = TopLeft THEN x ELSE x + (c.logical_width \div 2)
BufY(c, y) == IF c.coordinate_system = TopLeft THEN y ELSE (c.logical_height \div 2) - y

(* (x, y) lies outside the logical bounds; no sum is formed, so that the   *)
(* extreme values of x and y are covered                                   *)
OutOfBounds(c, x, y) ==
    LET cx == IF c.coordinate_system = TopLeft THEN 0 ELSE c.logical_width \div 2
        cy == IF c.coordinate_system = TopLeft THEN 0 ELSE c.logical_height \div 2
    IN  \/ x < -cx
        \/ x >= c.logical_width - cx
        \/ IF c.coordinate_system = TopLeft
           THEN y < 0 \/ y >= c.logical_height
           ELSE y > cy \/ y <= cy - c.logical_height

SetPixelDone == call.op = "set_pixel" /\ call.ret = Some(TRUE)

(* C1: after set_pixel(x, y, c) returned true, get_pixel(x, y) is Some(c) *)
RoundTrip ==
    SetPixelDone =>
        get_pixel(cv, Enter(frame), call.x, call.y, FALSE).ret = Some(call.color)

(* C2: a set_pixel or get_pixel outside the logical bounds does not panic,  *)
(* returns false (None) and leaves every byte of the frame as it was        *)
Clipping ==
    (call.op \in {"set_pixel", "get_pixel"} /\ OutOfBounds(cv, call.x, call.y)) =>
        /\ ~panicked
        /\ frame = prev
        /\ call.ret = IF call.op = "set_pixel" THEN Some(FALSE) ELSE None

(* C3: a successful set_pixel(x, y, c) sets the bytes R,G,B,A of exactly    *)
(* the physical pixels of the block of (bx, by) and leaves the others; the  *)
(* two examples of the specification are evaluated with the same operators  *)
SetPixelEffect ==
    /\ SetPixelDone =>
          LET bx == BufX(cv, call.x)
              by == BufY(cv, call.y)
              sx == cv.physical_width \div cv.logical_width
              sy == cv.physical_height \div cv.logical_height
          IN  /\ Len(frame) = Len(prev)
              /\ \A i \in 1..Len(frame) :
                    frame[i] = IF /\ bx * sx <= PxOf(i) /\ PxOf(i) < (bx + 1) * sx
                                  /\ by * sy <= PyOf(i) /\ PyOf(i) < (by + 1) * sy
                               THEN call.color[((i - 1) % 4) + 1]
                               ELSE prev[i]
    /\ LET c == CanvasNew(4, 4, 2, 2, TopLeft, FALSE, WHITE)
           f == set_pixel(c, Enter(BlankFrame(4, 4)), 0, 0, RED, FALSE).st.frame
       IN  \A i \in 1..64 :
              f[i] = IF ((i - 1) \div 4) \in {0, 1, 4, 5} THEN RED[((i - 1) % 4) + 1] ELSE 0
    /\ LET c == CanvasNew(10, 10, 10, 10, Center, FALSE, WHITE)
       IN  /\ to_logical_coords(c, 0, 0, FALSE).val = <<5, 5>>
           /\ to_logical_coords(c, 1, 1, FALSE).val = <<6, 4>>

(* C3 witness: under Center, a block of more than one pixel was painted     *)
(* over a frame that already held other content                             *)
SetPixelEffectWitness ==
    /\ SetPixelDone
    /\ cv.coordinate_system = Center
    /\ cv.pixel_scale_x > 1
    /\ frame # prev
    /\ \E i \in 1..Len(prev) : prev[i] # 0 /\ frame[i] = prev[i]

(* A physical pixel on a grid line: a logical-cell boundary in x or in y *)
OnGridLine(px, py) ==
    \/ \E k \in 0..cv.logical_width : k * cv.pixel_scale_x = px
    \/ \E k \in 0..cv.logical_height : k * cv.pixel_scale_y = py

GridOver(f) ==
    [i \in 1..Len(f) |-> IF OnGridLine(PxOf(i), PyOf(i))
                          THEN cv.grid_color[((i - 1) % 4) + 1] ELSE f[i]]

(* C6 as stated: draw_grid draws the lines when the flag is set and at      *)
(* least one scale factor exceeds 1, and changes nothing otherwise          *)
DrawGridEitherScale ==
    call.op = "draw_grid" =>
        frame = IF cv.show_grid /\ (cv.pixel_scale_x > 1 \/ cv.pixel_scale_y > 1)
                THEN GridOver(prev) ELSE prev

(* C6 amended: draw_grid draws the lines when the flag is set and both      *)
(* scale factors exceed 1, and changes nothing otherwise                    *)
DrawGridBothScales ==
    call.op = "draw_grid" =>
        frame = IF cv.show_grid /\ cv.pixel_scale_x > 1 /\ cv.pixel_scale_y > 1
                THEN GridOver(prev) ELSE prev

(* C6 witness: the grid was drawn over pixels painted before *)
DrawGridWitness ==
    /\ call.op = "draw_grid"
    /\ cv.show_grid /\ cv.pixel_scale_x > 1 /\ cv.pixel_scale_y > 1
    /\ \E i \in 1..Len(prev) : prev[i] # 0 /\ frame[i] # prev[i]
    /\ \E i \in 1..Len(prev) : prev[i] # 0 /\ frame[i] = prev[i]

(* The logical points a fill_rect(x, y, w, h) names that can be in bounds:  *)
(* u is x + dx for some dx in [0, w), decided without forming x + w         *)
InSpan(x, w, u) ==
    /\ x <= u
    /\ IF w.hi = 1
       THEN x >= 0 \/ (x - I32Min) > I32Max - w.lo \/ u < (x - I32Min) + w.lo
       ELSE x > I32Max - w.lo \/ u < x + w.lo

RECURSIVE SetPixels(_, _, _, _)
SetPixels(c, f, points, color) ==
    IF points = {} THEN f
    ELSE LET p == CHOOSE q \in points : TRUE
         IN  SetPixels(c, set_pixel(c, Enter(f), p[1], p[2], color, FALSE).st.frame,
                       points \ {p}, color)

(* C8: fill_rect(x, y, w, h, c) does not panic and leaves the frame as the  *)
(* set_pixel calls at (x+dx, y+dy), dx in [0,w), dy in [0,h), leave it      *)
(* (the offsets outside -MaxLog..MaxLog are out of bounds and are skipped)  *)
FillRectComposition ==
    call.op = "fill_rect" =>
        /\ ~panicked
        /\ frame = SetPixels(cv, prev,
                      {p \in ((-MaxLog)..MaxLog) \X ((-MaxLog)..MaxLog) :
                          /\ InSpan(call.x, call.width, p[1])
                          /\ InSpan(call.y, call.height, p[2])},
                      call.color)

(* C10: every byte index a call reads or writes is inside the frame, whose  *)
(* length stays physical_width*physical_height*4, and set_pixel writes only *)
(* inside the part of the frame that the logical grid covers                *)
BufferAccessSafe ==
    /\ Len(frame) = cv.physical_width * cv.physical_height * 4
    /\ \A i \in touched : 0 <= i /\ i < Len(frame)
    /\ call.op = "set_pixel" =>
          \A i \in touched :
              /\ PxOf(i + 1) < cv.logical_width * (cv.physical_width \div cv.logical_width)
              /\ PyOf(i + 1) < cv.logical_height * (cv.physical_height \div cv.logical_height)

(* C10 witness: set_pixel wrote a block on a canvas whose physical width    *)
(* is not a multiple of the logical width, after earlier calls              *)
BufferAccessWitness ==
    /\ call.op = "set_pixel"
    /\ touched # {}
    /\ cv.physical_width % cv.logical_width # 0
    /\ \E i \in 1..Len(prev) : prev[i] # 0

----------------------------------------------------------------------------
(* Properties of the bouncing box (SpecBox) *)

(* C7: when box_x + 8 exceeds the world width the next update flips         *)
(* velocity_x, and box_x never exceeds the world width - 8; the same for    *)
(* box_y and the height (the width and height update compares against)      *)
BounceScenario ==
    [][/\ bb.box_x + BOX_SIZE > WIDTH => bb'.velocity_x = -bb.velocity_x
       /\ bb.box_y + BOX_SIZE > HEIGHT => bb'.velocity_y = -bb.velocity_y
       /\ bb'.box_x <= WIDTH - BOX_SIZE
       /\ bb'.box_y <= HEIGHT - BOX_SIZE]_vars

----------------------------------------------------------------------------
(* Properties of the driver (SpecApp) *)

(* A physical pixel of the driver's canvas on a grid line *)
AppOnGridLine(px, py) ==
    \/ \E k \in 0..cv.logical_width : k * cv.pixel_scale_x = px
    \/ \E k \in 0..cv.logical_height : k * cv.pixel_scale_y = py

(* C4: in every redraw draw_grid is called after World::draw and before the *)
(* buffer is presented, and when the grid is enabled and active every       *)
(* grid-line pixel of the presented buffer has the grid colour              *)
GridOnTop ==
    /\ log # <<>> =>
          \E i, j, k \in 1..Len(log) :
              /\ i < j /\ j < k
              /\ log[i] = "draw" /\ log[j] = "draw_grid" /\ log[k] = "render"
    /\ (presented # <<>> /\ cv.show_grid /\ cv.pixel_scale_x > 1 /\ cv.pixel_scale_y > 1) =>
          \A i \in 1..Len(presented) :
              AppOnGridLine(PxOf(i), PyOf(i)) =>
                  presented[i] = cv.grid_color[((i - 1) % 4) + 1]

InputTracksEvents ==
    app.window = "Some" =>
        /\ \A k \in KeyCodes :
              is_key_pressed(app.input, k) <=> last.key[k] = "down"
        /\ app.input.mouse_position =
              IF last.cursor.kind = "moved" THEN Some(last.cursor.val) ELSE None
        /\ is_left_mouse_pressed(app.input) <=> last.button["Left"] = "down"
        /\ is_middle_mouse_pressed(app.input) <=> last.button["Middle"] = "down"
        /\ is_right_mouse_pressed(app.input) <=> last.button["Right"] = "down"

(* C9 witness: after a redraw, with a key held, the pointer gone after a    *)
(* move, one button down and another released                               *)
InputTracksWitness ==
    /\ log # <<>>
    /\ last.key["KeyA"] = "down"
    /\ last.cursor.kind = "left"
    /\ last.button["Right"] = "down"
    /\ last.button["Left"] = "up"
    /\ last.button["Middle"] = "none"

====
